---- MODULE Spec2Model ----
(***************************************************************************)
(* UM-KM-StringCrypt: compile-time string obfuscation (KeyGen, the         *)
(* SecureString transform, and the ENC_STR / ENC_WSTR call sites), as      *)
(* defined by src/secure_string.hpp and src/SecureString.hpp.              *)
(*                                                                         *)
(* A 64-bit unsigned value is a sequence of 8 bytes, least significant     *)
(* first, so that multiplication and shifts wrap modulo 2^64 exactly as    *)
(* they do on unsigned long long / uint64_t.                               *)
(***************************************************************************)
EXTENDS Integers, Sequences, FiniteSets, TLC

VARIABLES
    hdr, CharT, N, Seed,            \* the header and the template arguments
    input, encrypted, ctor, built,  \* the literal, crypt.encrypted, its value
                                    \* at the end of the constructor
    buf, threads, pc, idx, calls, wlog,   \* the decode destination, callers
    pos, ch, ksrc, keys, enc, dec, kout, phase   \* one use of a function

cfgVars == <<hdr, CharT, N, Seed>>
siteVars == <<input, encrypted, ctor, built, buf, threads, pc, idx, calls, wlog>>
fnVars == <<pos, ch, ksrc, keys, enc, dec, kout, phase>>
vars == <<cfgVars, siteVars, fnVars>>

Byte == 0..255

(* ---------------------------------------------------------------------- *)
(* Bounds of the model                                                    *)
(* ---------------------------------------------------------------------- *)

MaxN == 3          \* longest literal of a call site, in code units
MaxRaceN == 2      \* longest literal of a call site that threads share
MaxPad == 1        \* elements of a caller's buffer beyond the N needed
NumThreads == 2    \* threads that use one call site
MaxCalls == 2      \* invocations of the call site per thread
MaxFnN == 4        \* longest literal whose positions are transformed
MaxKeyN == 8       \* longest short literal whose key bytes are generated
MaxOver == 2       \* and the lengths 256 + 1 .. 256 + MaxOver

(* ---------------------------------------------------------------------- *)
(* Bitwise operators of C on non-negative values                          *)
(* ---------------------------------------------------------------------- *)

\* a ^ b
RECURSIVE Xor(_, _)
Xor(a, b) ==
    IF a = 0 THEN b
    ELSE IF b = 0 THEN a
    ELSE ((a + b) % 2) + 2 * Xor(a \div 2, b \div 2)

\* a | b   (a + b = (a ^ b) + 2 * (a & b), a | b = (a ^ b) + (a & b))
Or(a, b) == (a + b + Xor(a, b)) \div 2

Pow2(n) == CASE n = 0 -> 1 [] n = 1 -> 2 [] n = 2 -> 4 [] n = 3 -> 8
             [] n = 4 -> 16 [] n = 5 -> 32 [] n = 6 -> 64 [] n = 7 -> 128
             [] n = 8 -> 256

(* ---------------------------------------------------------------------- *)
(* 64-bit unsigned arithmetic                                             *)
(* ---------------------------------------------------------------------- *)

U64(n) == <<n % 256, (n \div 256) % 256, (n \div 65536) % 256,
            (n \div 16777216) % 256, 0, 0, 0, 0>>

Xor64(x, y) == <<Xor(x[1], y[1]), Xor(x[2], y[2]), Xor(x[3], y[3]),
                 Xor(x[4], y[4]), Xor(x[5], y[5]), Xor(x[6], y[6]),
                 Xor(x[7], y[7]), Xor(x[8], y[8])>>

\* x >> 33
Shr33(x) == <<(x[5] \div 2) + 128 * (x[6] % 2),
              (x[6] \div 2) + 128 * (x[7] % 2),
              (x[7] \div 2) + 128 * (x[8] % 2),
              x[8] \div 2, 0, 0, 0, 0>>

\* sum of the byte products x[i] * y[j] of weight 256^(k-1)
RECURSIVE MulCol(_, _, _, _)
MulCol(x, y, k, i) ==
    IF i > k THEN 0 ELSE x[i] * y[k + 1 - i] + MulCol(x, y, k, i + 1)

\* the bytes k .. 8 of x * y, given the carry into byte k
RECURSIVE MulFrom(_, _, _, _)
MulFrom(x, y, k, carry) ==
    IF k > 8 THEN <<>>
    ELSE LET c == MulCol(x, y, k, 1) + carry
         IN  <<c % 256>> \o MulFrom(x, y, k + 1, c \div 256)

\* x * y modulo 2^64
Mul64(x, y) == MulFrom(x, y, 1, 0)

(* ---------------------------------------------------------------------- *)
(* Rotations                                                              *)
(* ---------------------------------------------------------------------- *)

\* ((unsigned char)(((x) << ((r) % 8)) | ((x) >> (8 - ((r) % 8)))))
ROL8(x, r) == Or(x * Pow2(r % 8), x \div Pow2(8 - (r % 8))) % 256

\* ((unsigned char)(((x) >> ((r) % 8)) | ((x) << (8 - ((r) % 8)))))
ROR8(x, r) == Or(x \div Pow2(r % 8), x * Pow2(8 - (r % 8))) % 256

(* ---------------------------------------------------------------------- *)
(* KeyGen<N, Seed, Round>                                                 *)
(* ---------------------------------------------------------------------- *)

MixMul1 == <<147, 253, 89, 102, 184, 254, 232, 214>>   \* 0xD6E8FEB86659FD93
MixMul2 == <<197, 244, 22, 31, 44, 62, 203, 165>>      \* 0xA5CB3E2C1F16F4C5
magic == <<43, 248, 148, 254, 114, 243, 110, 60>>      \* 0x3C6EF372FE94F82B
RoundMul == <<120, 105, 90, 75, 60, 45, 30, 15>>       \* 0x0F1E2D3C4B5A6978

\* x ^= x >> 33
XorShr33(x) == Xor64(x, Shr33(x))

mix(x) ==
    XorShr33(Mul64(XorShr33(Mul64(XorShr33(x), MixMul1)), MixMul2))

\* val = (val >> 32) ^ (val & 0xFFFFFFFF)
Fold32(val) ==
    <<Xor(val[5], val[1]), Xor(val[6], val[2]),
      Xor(val[7], val[3]), Xor(val[8], val[4])>>

\* static_cast<unsigned char>(val ^ (val >> 16) ^ (val >> 8))
Fold8(val) == Xor(Xor(val[1], val[3]), val[2])

get_byte(seed, rnd, index) ==
    Fold8(Fold32(Xor64(mix(Xor64(seed, Mul64(U64(index), magic))),
                       Mul64(U64(rnd), RoundMul))))

\* get() without the + 1: a rotation amount in [0, 7]
GetRotFromZero(rnd, index) == (index + rnd) % 8

\* the rotation amount get() hands to ROL8
GetRot(rnd, index) == ((index + rnd) % 8) + 1

\* unsigned char k = get_byte(index) ^ get_byte(N - index - 1 + Round)
GetTaps(n, seed, rnd, index) ==
    Xor(get_byte(seed, rnd, index), get_byte(seed, rnd, n - index - 1 + rnd))

\* the operand get() hands to ROL8: k ^ index ^ (Seed & 0xFF), 64 bits wide
GetOperand(n, seed, rnd, index) ==
    Xor(Xor(GetTaps(n, seed, rnd, index), index), seed[1])

get(n, seed, rnd, index) ==
    ROL8(GetOperand(n, seed, rnd, index), GetRot(rnd, index))

(* ---------------------------------------------------------------------- *)
(* SecureString<CharT, N, Seed>                                           *)
(* ---------------------------------------------------------------------- *)

\* the two headers of the repository
Headers == {"secure_string.hpp", "SecureString.hpp"}

OtherHeader(h) ==
    IF h = "secure_string.hpp" THEN "SecureString.hpp" ELSE "secure_string.hpp"

\* both headers with the constant of secure_string.hpp
XorConstShared(h) == 165

\* tmp ^= 0xA5 (secure_string.hpp), tmp ^= 0x5A (SecureString.hpp)
XorConst(h) == IF h = "secure_string.hpp" THEN 165 ELSE 90

CharTypes == {"char", "wchar_t"}

\* the values of one code unit, as bit patterns (wchar_t is 16 bits wide)
CodeUnit(T) == IF T = "char" THEN 0..255 ELSE 0..65535

\* Round is never given: every KeyGen<N, Seed> takes the default
Round == 0

KeySalt2 == <<222, 192, 173, 222, 13, 240, 173, 186>>   \* 0xBAADF00DDEADC0DE
KeySalt3 == <<13, 208, 254, 202, 190, 186, 237, 254>>   \* 0xFEEDBABECAFED00D

\* k1, k2, k3 of obfuscate and of deobfuscate at position i
KeyTriple(n, seed, i) ==
    << get(n, seed, Round, i),
       get(n, Xor64(seed, KeySalt2), Round, n - i - 1),
       get(n, Xor64(seed, KeySalt3), Round, (i * i) % n) >>

\* obfuscate whose second stage shifts left instead of rotating
obfuscate_k_shift(X, c, i, k) ==
    LET t1 == Xor(c % 256, k[1])
        t2 == (t1 * Pow2((k[2] % 7) + 1)) % 256
        t3 == (-(t2 + Xor(k[2], k[3])) - 1) % 256
        t4 == Xor(t3, X)
    IN  ROR8(t4, (i + k[3]) % 8)

\* obfuscate after its three keys k = <<k1, k2, k3>> are computed
obfuscate_k(X, c, i, k) ==
    LET t1 == Xor(c % 256, k[1])
        t2 == ROL8(t1, (k[2] % 7) + 1)
        t3 == (-(t2 + Xor(k[2], k[3])) - 1) % 256
        t4 == Xor(t3, X)
    IN  ROR8(t4, (i + k[3]) % 8)

\* deobfuscate that undoes the second stage by (k2 % 8) + 1 bits
deobfuscate_k_mod8(X, c, i, k) ==
    LET t0 == c % 256
        t1 == ROL8(t0, (i + k[3]) % 8)
        t2 == Xor(t1, X)
        t3 == ((-t2 - 1) - Xor(k[2], k[3])) % 256
        t4 == ROR8(t3, (k[2] % 8) + 1)
    IN  Xor(t4, k[1])

\* deobfuscate after its three keys k = <<k1, k2, k3>> are computed
deobfuscate_k(X, c, i, k) ==
    LET t0 == c % 256
        t1 == ROL8(t0, (i + k[3]) % 8)
        t2 == Xor(t1, X)
        t3 == ((-t2 - 1) - Xor(k[2], k[3])) % 256
        t4 == ROR8(t3, (k[2] % 7) + 1)
    IN  Xor(t4, k[1])

\* obfuscate that ignores the position: a plain substitution of bytes
obfuscate_at_zero(h, n, seed, c, i) ==
    obfuscate_k(XorConst(h), c, 0, KeyTriple(n, seed, 0))

obfuscate(h, n, seed, c, i) ==
    obfuscate_k(XorConst(h), c, i, KeyTriple(n, seed, i))

deobfuscate(h, n, seed, c, i) ==
    deobfuscate_k(XorConst(h), c, i, KeyTriple(n, seed, i))

\* the constructor: encrypted[i] = obfuscate(input[i], i) for i in [0, N)
SecureString(h, n, seed, in) ==
    [j \in 1..n |-> obfuscate(h, n, seed, in[j], j - 1)]

(* ---------------------------------------------------------------------- *)
(* A call site: ENC_STR(s) / ENC_WSTR(s), or a caller of decrypt(out)     *)
(* ---------------------------------------------------------------------- *)

Seed0 == U64(0)
Seed1 == U64(1)
Seed2 == U64(2)
SeedOnes == <<255, 255, 255, 255, 255, 255, 255, 255>>

SiteSeeds == {Seed1, SeedOnes}

\* code units the literals are made of
Alphabet(T) == IF T = "char" THEN {0, 65, 200} ELSE {0, 65, 321}

\* what a caller's buffer holds before decrypt
Fill(T) == IF T = "char" THEN 204 ELSE 52428

NoFn ==
    /\ pos = 0 /\ ch = 0 /\ ksrc = "none" /\ keys = <<>> /\ enc = 0 /\ dec = 0
    /\ kout = 0 /\ phase = "none"

\* the literals s of n code units: n - 1 units and the terminating zero
Literals(T, n) ==
    {[j \in 1..n |-> IF j = n THEN 0 ELSE body[j]] :
        body \in [1..(n - 1) -> Alphabet(T)]}

InitLiteral(maxLen) ==
    /\ hdr \in Headers
    /\ CharT \in CharTypes
    /\ N \in 1..maxLen
    /\ Seed \in SiteSeeds
    /\ input \in Literals(CharT, N)
    /\ encrypted = [j \in 1..N |-> 0]
    /\ ctor = <<>>
    /\ built = FALSE
    /\ NoFn

InitThreads ==
    /\ pc = [t \in threads |-> "idle"]
    /\ idx = [t \in threads |-> 0]
    /\ calls = [t \in threads |-> 0]
    /\ wlog = [t \in threads |-> <<>>]

\* static CharT buf[N] = {}
StaticBuf == buf = [j \in 1..N |-> 0]

\* the buffer of a caller of crypt.decrypt(out): at least N elements
CallerBuf == \E pad \in 0..MaxPad : buf = [j \in 1..(N + pad) |-> Fill(CharT)]

\* one thread that runs the call site, or calls decrypt(out), again and again
InitSite ==
    /\ InitLiteral(MaxN)
    /\ StaticBuf \/ CallerBuf
    /\ threads = {1}
    /\ InitThreads

\* NumThreads threads that run one call site and share its static buffer
InitRace ==
    /\ InitLiteral(MaxRaceN)
    /\ StaticBuf
    /\ threads = 1..NumThreads
    /\ InitThreads

\* constexpr SecureString(const CharT(&input)[N])
Construct ==
    /\ ~built
    /\ encrypted' = SecureString(hdr, N, Seed, input)
    /\ ctor' = encrypted'
    /\ built' = TRUE
    /\ UNCHANGED <<cfgVars, input, buf, threads, pc, idx, calls, wlog, fnVars>>

\* a call site that decodes on its first invocation only
InvokeOnce(t) ==
    /\ built
    /\ pc[t] = "idle"
    /\ calls[t] < MaxCalls
    /\ pc' = [pc EXCEPT ![t] = "loop"]
    /\ idx' = [idx EXCEPT ![t] = IF \E u \in threads : calls[u] > 0 THEN N ELSE 0]
    /\ calls' = [calls EXCEPT ![t] = @ + 1]
    /\ wlog' = [wlog EXCEPT ![t] = <<>>]
    /\ UNCHANGED <<cfgVars, input, encrypted, ctor, built, buf, threads, fnVars>>

\* the lambda of the macro is entered and calls crypt.decrypt(buf)
Invoke(t) ==
    /\ built
    /\ pc[t] = "idle"
    /\ calls[t] < MaxCalls
    /\ pc' = [pc EXCEPT ![t] = "loop"]
    /\ idx' = [idx EXCEPT ![t] = 0]
    /\ calls' = [calls EXCEPT ![t] = @ + 1]
    /\ wlog' = [wlog EXCEPT ![t] = <<>>]
    /\ UNCHANGED <<cfgVars, input, encrypted, ctor, built, buf, threads, fnVars>>

\* decrypt that decodes in place as well
DecryptStepInPlace(t) ==
    /\ pc[t] = "loop"
    /\ idx[t] < N
    /\ buf' = [buf EXCEPT ![idx[t] + 1] =
                  deobfuscate(hdr, N, Seed, encrypted[idx[t] + 1], idx[t])]
    /\ encrypted' = [encrypted EXCEPT ![idx[t] + 1] = buf'[idx[t] + 1]]
    /\ wlog' = [wlog EXCEPT ![t] = Append(@, idx[t])]
    /\ idx' = [idx EXCEPT ![t] = @ + 1]
    /\ UNCHANGED <<cfgVars, input, ctor, built, threads, pc, calls, fnVars>>

\* out[i] = deobfuscate(encrypted[i], i), stored as one unit
DecryptStep(t) ==
    /\ pc[t] = "loop"
    /\ idx[t] < N
    /\ buf' = [buf EXCEPT ![idx[t] + 1] =
                  deobfuscate(hdr, N, Seed, encrypted[idx[t] + 1], idx[t])]
    /\ wlog' = [wlog EXCEPT ![t] = Append(@, idx[t])]
    /\ idx' = [idx EXCEPT ![t] = @ + 1]
    /\ UNCHANGED <<cfgVars, input, encrypted, ctor, built, threads, pc, calls,
                   fnVars>>

\* the same store of a 16-bit unit, unsynchronised, seen one byte at a time
DecryptStepLow(t) ==
    /\ CharT = "wchar_t"
    /\ pc[t] = "loop"
    /\ idx[t] < N
    /\ buf' = [buf EXCEPT ![idx[t] + 1] = (@ \div 256) * 256 +
                  (deobfuscate(hdr, N, Seed, encrypted[idx[t] + 1], idx[t]) % 256)]
    /\ pc' = [pc EXCEPT ![t] = "half"]
    /\ UNCHANGED <<cfgVars, input, encrypted, ctor, built, threads, idx, calls,
                   wlog, fnVars>>

DecryptStepHigh(t) ==
    /\ pc[t] = "half"
    /\ buf' = [buf EXCEPT ![idx[t] + 1] = (@ % 256) + 256 *
                  (deobfuscate(hdr, N, Seed, encrypted[idx[t] + 1], idx[t]) \div 256)]
    /\ wlog' = [wlog EXCEPT ![t] = Append(@, idx[t])]
    /\ idx' = [idx EXCEPT ![t] = @ + 1]
    /\ pc' = [pc EXCEPT ![t] = "loop"]
    /\ UNCHANGED <<cfgVars, input, encrypted, ctor, built, threads, calls, fnVars>>

\* the loop of decrypt ends; the macro returns buf
Return(t) ==
    /\ pc[t] = "loop"
    /\ idx[t] = N
    /\ pc' = [pc EXCEPT ![t] = "idle"]
    /\ UNCHANGED <<cfgVars, input, encrypted, ctor, built, buf, threads, idx,
                   calls, wlog, fnVars>>

NextSite ==
    \/ Construct
    \/ \E t \in threads : Invoke(t)
    \/ \E t \in threads : DecryptStep(t)
    \/ \E t \in threads : DecryptStepLow(t)
    \/ \E t \in threads : DecryptStepHigh(t)
    \/ \E t \in threads : Return(t)

SpecSite == InitSite /\ [][NextSite]_vars

SpecRace == InitRace /\ [][NextSite]_vars

\* thread t has invoked the call site and its last invocation has returned
Returned(t) == pc[t] = "idle" /\ calls[t] > 0

Decoded == \A j \in 1..N : buf[j] = input[j]

(* ---------------------------------------------------------------------- *)
(* obfuscate and deobfuscate at one position, KeyGen::get at one index    *)
(* ---------------------------------------------------------------------- *)

FnSeeds == {Seed0, Seed1, Seed2, SeedOnes}

\* key bytes of seeds that FnSeeds leaves out
KeySample ==
    {<<k1, k2, k3>> : k1 \in {0, 90, 255}, k2 \in {6, 7, 255}, k3 \in {0, 165}}

\* the code units handed to obfuscate
Units(T) ==
    IF T = "char" THEN CodeUnit(T)
    ELSE CodeUnit(T) \cap {0, 65, 255, 256, 321, 20013, 65535}

NoSite ==
    /\ input = <<>> /\ encrypted = <<>> /\ ctor = <<>> /\ built = FALSE
    /\ buf = <<>> /\ threads = {} /\ pc = <<>> /\ idx = <<>> /\ calls = <<>>
    /\ wlog = <<>>

InitFn ==
    /\ hdr \in Headers
    /\ CharT \in CharTypes
    /\ N \in 1..MaxFnN
    /\ Seed \in FnSeeds
    /\ pos \in 0..(N - 1)
    /\ ch = 0 /\ ksrc = "none" /\ keys = <<>> /\ enc = 0 /\ dec = 0 /\ kout = 0
    /\ phase = "args"
    /\ NoSite

\* k1, k2, k3 as obfuscate and deobfuscate compute them
DeriveKeys ==
    /\ phase = "args"
    /\ keys' = KeyTriple(N, Seed, pos)
    /\ ksrc' = "KeyGen"
    /\ phase' = "keyed"
    /\ UNCHANGED <<cfgVars, siteVars, pos, ch, enc, dec, kout>>

\* k1, k2, k3 of some other seed: any three bytes
PickKeys ==
    /\ phase = "args"
    /\ \E k \in KeySample : keys' = k
    /\ ksrc' = "any"
    /\ phase' = "keyed"
    /\ UNCHANGED <<cfgVars, siteVars, pos, ch, enc, dec, kout>>

Obfuscate ==
    /\ phase = "keyed"
    /\ \E c \in Units(CharT) :
          /\ ch' = c
          /\ enc' = obfuscate_k(XorConst(hdr), c, pos, keys)
    /\ phase' = "enc"
    /\ UNCHANGED <<cfgVars, siteVars, pos, ksrc, keys, dec, kout>>

Deobfuscate ==
    /\ phase = "enc"
    /\ dec' = deobfuscate_k(XorConst(hdr), enc, pos, keys)
    /\ phase' = "dec"
    /\ UNCHANGED <<cfgVars, siteVars, pos, ch, ksrc, keys, enc, kout>>

NextFn == DeriveKeys \/ PickKeys \/ Obfuscate \/ Deobfuscate

SpecFn == InitFn /\ [][NextFn]_vars

KeyGenLengths == (1..MaxKeyN) \cup {256 + d : d \in 1..MaxOver}

InitKeyGen ==
    /\ hdr \in Headers
    /\ CharT = "char"
    /\ N \in KeyGenLengths
    /\ Seed \in FnSeeds
    /\ pos \in 0..(N - 1)
    /\ ch = 0 /\ ksrc = "none" /\ keys = <<>> /\ enc = 0 /\ dec = 0 /\ kout = 0
    /\ phase = "args"
    /\ NoSite

\* KeyGen<N, Seed>::get(pos)
Get ==
    /\ phase = "args"
    /\ kout' = get(N, Seed, Round, pos)
    /\ phase' = "got"
    /\ UNCHANGED <<cfgVars, siteVars, pos, ch, ksrc, keys, enc, dec>>

NextKeyGen == Get

SpecKeyGen == InitKeyGen /\ [][NextKeyGen]_vars

(* ---------------------------------------------------------------------- *)
(* Properties                                                             *)
(* ---------------------------------------------------------------------- *)

\* the 8-bit left rotation of the byte b by s bits, s in [0, 7]
TrueRol8(b, s) == ((b * Pow2(s)) % 256) + (b \div Pow2(8 - s))

\* <<0, 1, ..., n - 1>>
UpTo(n) == [j \in 1..n |-> j - 1]

\* C1: an 8-bit code unit that is obfuscated and then deobfuscated at the
\* same position, with the same three key bytes, comes back unchanged.
RoundTripChar ==
    (CharT = "char" /\ phase = "dec") => dec = ch

RoundTripCharWitness ==
    /\ CharT = "char" /\ phase = "dec" /\ ksrc = "KeyGen"
    /\ ch >= 128 /\ enc # ch /\ dec = ch /\ pos = N - 1 /\ N > 1

\* C2: a 16-bit code unit that is obfuscated and then deobfuscated at the
\* same position comes back unchanged, whatever its high byte.
RoundTripWide ==
    (CharT = "wchar_t" /\ phase = "dec" /\ ksrc = "KeyGen") => dec = ch

\* C3: at a fixed position, with fixed key bytes, obfuscate maps the 256
\* byte values onto the 256 byte values, each hit once.
PerPositionBijection ==
    phase = "keyed" =>
        {obfuscate_k(XorConst(hdr), c, pos, keys) : c \in Byte} = Byte

PerPositionBijectionWitness ==
    /\ phase = "keyed" /\ ksrc = "KeyGen" /\ pos >= 1
    /\ obfuscate_k(XorConst(hdr), 0, pos, keys)
         # obfuscate_k(XorConst(hdr), 128, pos, keys)
    /\ obfuscate_k(XorConst(hdr), 0, pos, keys) \in Byte

\* C4: decrypt writes out[0], ..., out[N-1], once each and in this order,
\* leaves every element of out from index N on as it was, and leaves
\* encrypted as the constructor made it, however often it is called.
DecryptFrame ==
    built =>
        /\ encrypted = ctor
        /\ \A j \in (N + 1)..Len(buf) : buf[j] = Fill(CharT)
        /\ \A t \in threads :
              /\ wlog[t] = UpTo(idx[t])
              /\ Returned(t) => wlog[t] = UpTo(N)

DecryptFrameWitness ==
    /\ built /\ Returned(1) /\ calls[1] = 2
    /\ Len(buf) > N /\ buf[N + 1] = Fill(CharT)
    /\ N >= 2 /\ wlog[1] = UpTo(N) /\ buf[1] # Fill(CharT)
    /\ encrypted = ctor /\ encrypted # input

\* C5 as stated: the two headers give the same ciphertext unit, and each
\* decodes the other's ciphertext to the plaintext.
HeadersAgree ==
    (phase = "dec" /\ ksrc = "KeyGen") =>
        /\ enc = obfuscate_k(XorConst(OtherHeader(hdr)), ch, pos, keys)
        /\ deobfuscate_k(XorConst(OtherHeader(hdr)), enc, pos, keys) = ch % 256

\* C5 amended: the two headers differ in the constant of the fourth stage,
\* so their ciphertext units are bitwise complements of each other, and a
\* header decodes its own ciphertext to the plaintext byte but never the
\* other header's.
HeadersComplementary ==
    phase = "dec" =>
        /\ enc = 255 - obfuscate_k(XorConst(OtherHeader(hdr)), ch, pos, keys)
        /\ deobfuscate_k(XorConst(OtherHeader(hdr)), enc, pos, keys) # ch % 256
        /\ dec = ch % 256

HeadersComplementaryWitness ==
    /\ phase = "dec" /\ hdr = "SecureString.hpp" /\ ksrc = "KeyGen"
    /\ enc # obfuscate_k(XorConst("secure_string.hpp"), ch, pos, keys)
    /\ dec = ch /\ ch >= 128

TestedSeeds == {Seed0, Seed1, Seed2, SeedOnes}

\* C6: for N >= 2, two distinct positions pos < j and any byte c, some
\* tested seed (0, 1, 2, all ones) obfuscates c differently at the two
\* positions.  (The statement does not mention the seed of the state: it
\* is evaluated in the states of one seed.)
PositionSensitive ==
    (phase = "enc" /\ ksrc = "KeyGen" /\ Seed = Seed0 /\ N >= 2) =>
        \A j \in (pos + 1)..(N - 1) : \E s \in TestedSeeds :
            obfuscate(hdr, N, s, ch, pos) # obfuscate(hdr, N, s, ch, j)

PositionSensitiveWitness ==
    /\ phase = "enc" /\ ksrc = "KeyGen" /\ Seed = Seed0 /\ N >= 2 /\ pos = 0
    /\ ch = 200
    /\ enc = obfuscate(hdr, N, Seed, ch, 0)
    /\ enc # obfuscate(hdr, N, Seed, ch, N - 1)

\* C7 as stated: only the first invocation of a call site decodes; a later
\* invocation writes nothing to the buffer.
DecodeOnce ==
    \A t \in threads : calls[t] >= 2 => wlog[t] = <<>>

\* C7 amended: every invocation of a call site, the first and each later
\* one, runs decrypt and writes all N elements of the buffer before it
\* returns the buffer.
DecodeEveryTime ==
    \A t \in threads : Returned(t) => Len(wlog[t]) = N

DecodeEveryTimeWitness ==
    /\ Returned(1) /\ calls[1] = 2 /\ Len(wlog[1]) = N /\ N >= 2
    /\ Len(buf) = N /\ buf = [j \in 1..N |-> input[j] % 256]

\* C8 as stated: the rotation that get() applies is never the identity:
\* its amount is never congruent to 0 modulo 8.
RotationNeverIdentity ==
    phase = "got" => GetRot(Round, pos) % 8 # 0

\* C8 amended: the amount get() asks for lies in [1, 8]; ROL8 reduces it
\* modulo 8, so the rotation is by 0 bits exactly when
\* (index + Round) mod 8 = 7, and get() of such an index below 256
\* returns its operand unrotated.
RotationAmount ==
    phase = "got" =>
        /\ GetRot(Round, pos) \in 1..8
        /\ (GetRot(Round, pos) % 8 = 0) <=> ((pos + Round) % 8 = 7)
        /\ (pos < 256 /\ (pos + Round) % 8 = 7)
              => kout = GetOperand(N, Seed, Round, pos)
        /\ (pos < 256 /\ (pos + Round) % 8 # 7)
              => kout = TrueRol8(GetOperand(N, Seed, Round, pos),
                                 GetRot(Round, pos))

RotationAmountWitness ==
    /\ phase = "got" /\ pos % 8 = 7 /\ pos < 256
    /\ kout = GetOperand(N, Seed, Round, pos)
    /\ kout \notin {0, 255}

\* C9: get(index) is the 8-bit left rotation, by (index + Round) mod 8 + 1
\* bits, of the low byte of its operand, also for an index of 256 or more.
GetIsRotation ==
    phase = "got" =>
        kout = TrueRol8(GetOperand(N, Seed, Round, pos) % 256,
                        GetRot(Round, pos) % 8)

\* C10: a thread whose invocation of a call site has returned finds the
\* plaintext in all N elements of the shared buffer, whatever the other
\* threads are doing.
ReturnedSeesPlaintext ==
    \A t \in threads : Returned(t) => Decoded

\* what the shared buffer does hold then: the low byte of each code unit
ReturnedSeesLowBytes ==
    \A t \in threads :
        Returned(t) => \A j \in 1..N : buf[j] = input[j] % 256

====
